---- MODULE Spec2Model ----
(***************************************************************************)
(* State-machine model of CaptureRateTest (src/CaptureRateTest/main.cpp):  *)
(* command-line parsing, capture-subject resolution, and the capture       *)
(* session driven on a dedicated dispatcher-queue thread.                  *)
(*                                                                         *)
(* Strings (std::wstring) are sequences of one-character strings so that   *)
(* std::stoi and rfind can be computed character by character.             *)
(***************************************************************************)
EXTENDS Integers, Sequences, FiniteSets, TLC

\* ------------------------------------------------------------------ bounds
MaxArgs == 4
MaxArgsRun == 2
MaxMonitors == 2
MaxWindows == 3
MaxPrompts == 2
MaxFrames == 3
MaxTicks == 3
MaxIndex == 3

\* -------------------------------------------------------- program constants
INT_MAX == 2147483647

\* ----------------------------------------------------------------- strings
EmptyString == << >>
FlagHelp == <<"-", "h", "e", "l", "p">>
FlagHelpAlt == <<"/", "?">>
FlagInterval == <<"-", "i", "n", "t", "e", "r", "v", "a", "l">>
AliasInterval == <<"-", "i">>
FlagMonitor == <<"-", "m", "o", "n", "i", "t", "o", "r">>
AliasMonitor == <<"-", "m">>
FlagWindow == <<"-", "w", "i", "n", "d", "o", "w">>
AliasWindow == <<"-", "w">>

\* Command-line tokens the environment may pass (argv[1..]).
FlagTokens ==
    {FlagHelp, FlagHelpAlt, FlagInterval, AliasInterval,
     FlagMonitor, AliasMonitor, FlagWindow, AliasWindow}
ValueTokens ==
    {<<"0">>, <<"5">>, <<"-", "1">>, <<"a", "b">>, <<"2", "x">>}
Tokens == FlagTokens \cup ValueTokens
ArgLists == UNION {[1..n -> Tokens] : n \in 0..MaxArgs}

\* Lines the user may type at a console prompt (std::getline).
Lines ==
    {<< >>, <<"q">>, <<"Q">>, <<"q", "1">>, <<"0">>, <<"1">>, <<"2">>,
     <<"3">>, <<"9">>, <<"-", "1">>, <<"a", "b", "c">>, <<"1", "x">>}

Digits == {"0", "1", "2", "3", "4", "5", "6", "7", "8", "9"}
DigitVal ==
    "0" :> 0 @@ "1" :> 1 @@ "2" :> 2 @@ "3" :> 3 @@ "4" :> 4 @@
    "5" :> 5 @@ "6" :> 6 @@ "7" :> 7 @@ "8" :> 8 @@ "9" :> 9

\* ------------------------------------------------------------- std::stoi
\* Length of the longest prefix of s (from position i) made of digits.
RECURSIVE DigitPrefixLen(_, _)
DigitPrefixLen(s, i) ==
    IF i <= Len(s) /\ s[i] \in Digits THEN 1 + DigitPrefixLen(s, i + 1) ELSE 0

\* Value of the digits s[i .. i+n-1], accumulated left to right.
RECURSIVE DigitsValue(_, _, _, _)
DigitsValue(s, i, n, acc) ==
    IF n = 0 THEN acc ELSE DigitsValue(s, i + 1, n - 1, acc * 10 + DigitVal[s[i]])

RECURSIVE SkipSpaces(_, _)
SkipSpaces(s, i) ==
    IF i <= Len(s) /\ s[i] = " " THEN SkipSpaces(s, i + 1) ELSE i

\* std::stoi(str): skips leading blanks, takes an optional sign and the
\* longest run of digits, ignores what follows.  Throws (ok = FALSE) when no
\* digit is found (std::invalid_argument) or the value does not fit an int
\* (std::out_of_range).
Stoi(s) ==
    LET start == SkipSpaces(s, 1)
        signed == start <= Len(s) /\ s[start] \in {"-", "+"}
        neg == start <= Len(s) /\ s[start] = "-"
        first == IF signed THEN start + 1 ELSE start
        n == DigitPrefixLen(s, first)
        mag == DigitsValue(s, first, n, 0)
        val == IF neg THEN 0 - mag ELSE mag
    IN  IF n = 0 THEN [ok |-> FALSE, value |-> 0]
        ELSE IF val > INT_MAX \/ val < 0 - INT_MAX - 1 THEN [ok |-> FALSE, value |-> 0]
        ELSE [ok |-> TRUE, value |-> val]

\* A uint32_t value u is the record [top, low] with u = top * 2^31 + low,
\* top in 0..1 and low in 0..INT_MAX.
U32(n) == [top |-> 0, low |-> n]

\* Conversion int -> uint32_t (modulo 2^32): a negative v becomes 2^32 + v.
ToUint32(v) ==
    IF v >= 0 THEN [top |-> 0, low |-> v]
    ELSE [top |-> 1, low |-> INT_MAX + v + 1]

\* ParseNumberString: uint32_t width = std::stoi(s); any exception -> nullopt.
ParseNumberString(numberString) ==
    LET r == Stoi(numberString)
    IN  IF r.ok THEN [has |-> TRUE, value |-> ToUint32(r.value)]
        ELSE [has |-> FALSE, value |-> U32(0)]

\* ------------------------------------------- robmikh::common::wcli::impl
\* Index of the first argument equal to the flag or to its (non-empty) alias;
\* 0 when there is none.
RECURSIVE GetFlagIndexFrom(_, _, _, _)
GetFlagIndexFrom(argv, flag, alias, i) ==
    IF i > Len(argv) THEN 0
    ELSE IF argv[i] = flag \/ (alias # EmptyString /\ argv[i] = alias) THEN i
    ELSE GetFlagIndexFrom(argv, flag, alias, i + 1)

GetFlagIndex(argv, flag, alias) == GetFlagIndexFrom(argv, flag, alias, 1)

GetFlag(argv, flag) == GetFlagIndex(argv, flag, EmptyString) # 0

\* The argument following the flag, or the empty string when the flag is
\* absent or is the last argument.
GetFlagValue(argv, flag, alias) ==
    LET i == GetFlagIndex(argv, flag, alias)
    IN  IF i # 0 /\ i + 1 <= Len(argv) THEN argv[i + 1] ELSE EmptyString

\* ------------------------------------------------------------- messages
MsgUsage == "CaptureRateTest.exe usage"
MsgInvalidInterval == "Invalid interval specified!"
MsgConflict == "Cannot use options 'monitor' and 'window' at the same time!"
MsgInvalidMonitor == "Invalid monitor index specified!"
MsgMonitorOutOfBounds == "Monitor index is out of bounds!"
MsgNoWindows == "No windows found!"
MsgFoundWindows == "Found windows that match"
MsgSelectionPrompt == "Please make a selection (q to quit): "
MsgInvalidInput == "Invalid input"
MsgUsingWindow == "Using window"
MsgPressEnter == "Press ENTER to exit..."
MsgShuttingDown == "Shutting down capture thread..."

\* ---------------------------------------------------------- ParseOptions
DefaultInterval == U32(1000)
DefaultMonitorIndex == U32(0)
NoOptions == [has |-> FALSE]
MonitorCaptureSubject(i) == [kind |-> "Monitor", MonitorIndex |-> i]
WindowCaptureSubject(t) == [kind |-> "Window", TitleQuery |-> t]
SomeOptions(subject, interval) ==
    [has |-> TRUE, Subject |-> subject, IntervalInMs |-> interval]

\* The string the monitor-index branch hands to ParseNumberString.
MonitorParseInput(intervalString, monitorString) == intervalString

ConflictingSubjectsDroppedNot(monitorString, windowString) ==
    monitorString # EmptyString /\ windowString = EmptyString

\* !monitorString.empty() && !windowString.empty()
ConflictingSubjects(monitorString, windowString) ==
    monitorString # EmptyString /\ windowString # EmptyString

\* Result of ParseOptions(argc, argv, error): the returned optional, the
\* error out-parameter and the messages printed.
ParseOptionsResult(argv) ==
    LET intervalString == GetFlagValue(argv, FlagInterval, AliasInterval)
        monitorString == GetFlagValue(argv, FlagMonitor, AliasMonitor)
        windowString == GetFlagValue(argv, FlagWindow, AliasWindow)
        parsedInterval == ParseNumberString(intervalString)
        interval1 == IF intervalString # EmptyString THEN parsedInterval.value
                     ELSE DefaultInterval
        parsedIndex == ParseNumberString(MonitorParseInput(intervalString, monitorString))
        interval2 == IF monitorString # EmptyString THEN parsedIndex.value
                     ELSE interval1
        monitorIndex == DefaultMonitorIndex
        subject == IF windowString # EmptyString
                   THEN WindowCaptureSubject(windowString)
                   ELSE MonitorCaptureSubject(monitorIndex)
    IN  IF GetFlag(argv, FlagHelp) \/ GetFlag(argv, FlagHelpAlt)
        THEN [options |-> NoOptions, error |-> FALSE, printed |-> {MsgUsage}]
        ELSE IF intervalString # EmptyString /\ ~parsedInterval.has
        THEN [options |-> NoOptions, error |-> TRUE, printed |-> {MsgInvalidInterval}]
        ELSE IF ConflictingSubjects(monitorString, windowString)
        THEN [options |-> NoOptions, error |-> TRUE, printed |-> {MsgConflict}]
        ELSE IF monitorString # EmptyString /\ ~parsedIndex.has
        THEN [options |-> NoOptions, error |-> TRUE, printed |-> {MsgInvalidMonitor}]
        ELSE [options |-> SomeOptions(subject, interval2), error |-> FALSE,
              printed |-> {}]

\* ------------------------------------------------------------------ state
VARIABLES
    pc,                 \* position of the main thread in wmain
    args,               \* ParseOptions: the argument vector (argv[1..])
    error,              \* wmain: bool error
    options,            \* wmain: std::optional<Options> options
    exitCode,           \* exit status of the process (StillRunning until it ends)
    out,                \* messages printed so far (wprintf)
    numReads,           \* number of std::getline calls made on std::wcin
    monitors,           \* CreateCaptureSourceFromMonitorIndex: vector<HMONITOR>
    windows,            \* FindTopLevelWindowsByTitle result
    selectionString,    \* GetWindowToCapture: the line last read
    sourceOpt,          \* wmain: std::optional<CaptureItemSource> sourceOpt
    controller,         \* DispatcherQueueController: "none", "running", "shutdown"
    queue,              \* work items posted to the DispatcherQueue, FIFO
    wpc,                \* position of the dispatcher thread
    captureThreadEvent, \* wil::shared_event (auto-reset): TRUE when signalled
    framePool,          \* Direct3D11CaptureFramePool: "null", "open", "closed"
    session,            \* GraphicsCaptureSession: "null", "created", "started", "closed"
    timer,              \* DispatcherQueueTimer: [state, interval]
    frame,              \* Direct3D11CaptureFrame frame: "null", "open", "closed"
    buffer,             \* the pool's one buffer (line 102): "free", "queued", "held"
    itemsRun,           \* work items the dispatcher thread has completed
    ticks,              \* Tick callbacks run so far
    frames,             \* frames produced by the capture pipeline so far
    framesSinceTick,    \* frames handed to the FrameArrived handler since the last Tick
    closeCalls,         \* Close() calls made on the frame object `frame` refers to
    closeOnNull,        \* TRUE once Close() was called through a null `frame`
    mainReads           \* session objects the main thread has read directly

mainVars == <<pc, args, error, options, exitCode, out, numReads, monitors,
              windows, selectionString, sourceOpt>>
auditVars == <<framesSinceTick, closeCalls, closeOnNull, mainReads>>
workerVars == <<controller, queue, wpc, captureThreadEvent, framePool, session,
                timer, frame, buffer, itemsRun, ticks, frames, auditVars>>
vars == <<pc, args, error, options, exitCode, out, numReads, monitors,
          windows, selectionString, sourceOpt, controller, queue, wpc,
          captureThreadEvent, framePool, session, timer, frame, buffer,
          itemsRun, ticks, frames, framesSinceTick, closeCalls, closeOnNull,
          mainReads>>

\* Exit status while wmain has not returned, and the status of a process ended
\* by std::terminate (uncaught exception -> abort()).
StillRunning == -1
ExitAbnormal == 3

NoSource == [has |-> FALSE]
MonitorCaptureItemSource(h) == [has |-> TRUE, kind |-> "Monitor", handle |-> h]
WindowCaptureItemSource(h) == [has |-> TRUE, kind |-> "Window", handle |-> h]
NullTimer == [state |-> "null", interval |-> U32(0)]

\* Handles returned by the platform enumerations, in enumeration order.
HMONITOR(j) == 100 + j
HWND(j) == 200 + j
EnumDisplayMonitors(k) == [j \in 1..k |-> HMONITOR(j)]
FindTopLevelWindowsByTitle(m) == [j \in 1..m |-> HWND(j)]

\* State right after construction of everything but the inputs.
InitRest ==
    /\ error = FALSE
    /\ exitCode = StillRunning
    /\ out = {}
    /\ numReads = 0
    /\ monitors = << >>
    /\ windows = << >>
    /\ selectionString = EmptyString
    /\ sourceOpt = NoSource
    /\ controller = "none"
    /\ queue = << >>
    /\ wpc = "idle"
    /\ captureThreadEvent = FALSE
    /\ framePool = "null"
    /\ session = "null"
    /\ timer = NullTimer
    /\ frame = "null"
    /\ buffer = "free"
    /\ itemsRun = {}
    /\ ticks = 0
    /\ frames = 0
    /\ framesSinceTick = 0
    /\ closeCalls = 0
    /\ closeOnNull = FALSE
    /\ mainReads = {}

Init ==
    /\ pc = "ParseOptions"
    /\ args \in ArgLists
    /\ options = NoOptions
    /\ InitRest

\* ------------------------------------------------------------- main thread
\* wmain line 68: ParseOptions(argc, argv, error), up to its return statement.
ParseOptions ==
    /\ pc = "ParseOptions"
    /\ LET r == ParseOptionsResult(args)
       IN  /\ options' = r.options
           /\ error' = r.error
           /\ out' = out \cup r.printed
    /\ pc' = "ParseOptionsReturned"
    /\ UNCHANGED <<args, exitCode, numReads, monitors, windows, selectionString,
                   sourceOpt>>
    /\ UNCHANGED workerVars

ParseExitCodeAlwaysZero(err) == 0

\* return error ? 1 : 0;
ParseExitCode(err) == IF err THEN 1 ELSE 0

\* wmain lines 69-73: leave with 1 on error, with 0 when no options were
\* returned (help); ParseOptions' locals are gone.
CheckOptions ==
    /\ pc = "ParseOptionsReturned"
    /\ args' = << >>
    /\ IF error \/ ~options.has
       THEN /\ exitCode' = ParseExitCode(error)
            /\ pc' = "Done"
       ELSE /\ exitCode' = exitCode
            /\ pc' = "CreateItemSourceFromSubject"
    /\ UNCHANGED <<error, options, out, numReads, monitors, windows,
                   selectionString, sourceOpt>>
    /\ UNCHANGED workerVars

MonitorIndexInBoundsOffByOne(monitorIndex, size) ==
    monitorIndex.top = 0 /\ monitorIndex.low + 1 < size

\* monitorIndex < monitors.size(): uint32_t against size_t.
MonitorIndexInBounds(monitorIndex, size) ==
    monitorIndex.top = 0 /\ monitorIndex.low < size

\* CreateCaptureSourceFromMonitorIndex(monitorIndex), with k displays enumerated.
CreateCaptureSourceFromMonitorIndex ==
    /\ pc = "CreateItemSourceFromSubject"
    /\ options.Subject.kind = "Monitor"
    /\ \E k \in 0..MaxMonitors :
        LET mons == EnumDisplayMonitors(k)
            monitorIndex == options.Subject.MonitorIndex
        IN  /\ monitors' = mons
            /\ IF MonitorIndexInBounds(monitorIndex, Len(mons))
               THEN /\ sourceOpt' = MonitorCaptureItemSource(mons[monitorIndex.low + 1])
                    /\ out' = out
               ELSE /\ sourceOpt' = NoSource
                    /\ out' = out \cup {MsgMonitorOutOfBounds}
    /\ pc' = "SourceReturned"
    /\ UNCHANGED <<args, error, options, exitCode, numReads, windows, selectionString>>
    /\ UNCHANGED workerVars

NeedsSelectionFromOne(numWindowsFound) == numWindowsFound >= 1

\* numWindowsFound > 1: the user is asked to choose.
NeedsSelection(numWindowsFound) == numWindowsFound > 1

\* CreateCaptureSourceFromWindowTitleSearch(titleQuery) with m matching
\* windows, through GetWindowToCapture up to its first console read.
CreateCaptureSourceFromWindowTitleSearch ==
    /\ pc = "CreateItemSourceFromSubject"
    /\ options.Subject.kind = "Window"
    /\ \E m \in 0..MaxWindows :
        LET wins == FindTopLevelWindowsByTitle(m)
        IN  /\ windows' = wins
            /\ IF Len(wins) = 0
               THEN /\ out' = out \cup {MsgNoWindows}
                    /\ sourceOpt' = NoSource
                    /\ pc' = "SourceReturned"
               ELSE IF NeedsSelection(Len(wins))
               THEN /\ out' = out \cup {MsgFoundWindows}
                    /\ sourceOpt' = sourceOpt
                    /\ pc' = "GetWindowToCapture"
               ELSE /\ out' = out \cup {MsgUsingWindow}
                    /\ sourceOpt' = WindowCaptureItemSource(wins[1])
                    /\ pc' = "SourceReturned"
    /\ UNCHANGED <<args, error, options, exitCode, numReads, monitors, selectionString>>
    /\ UNCHANGED workerVars

\* selectionString.rfind(L"q", 0) == 0 || selectionString.rfind(L"Q", 0) == 0
IsQuit(s) == Len(s) >= 1 /\ s[1] \in {"q", "Q"}

\* selection >= 0 && selection < windows.size(); the second comparison
\* converts the int to size_t, which leaves a non-negative value unchanged.
SelectionInRange(selection, size) == selection >= 0 /\ selection < size

\* One iteration of the do/while loop of GetWindowToCapture (lines 228-248):
\* prompt, read a line, and quit, select, or report invalid input.  The
\* std::stoi call is not guarded: its exception leaves wmain and terminates
\* the process.
SelectionPrompt ==
    /\ pc = "GetWindowToCapture"
    /\ numReads < MaxPrompts
    /\ numReads' = numReads + 1
    /\ \E line \in Lines :
        /\ selectionString' = line
        /\ IF IsQuit(line)
           THEN /\ out' = out \cup {MsgSelectionPrompt}
                /\ sourceOpt' = NoSource
                /\ pc' = "SourceReturned"
                /\ exitCode' = exitCode
           ELSE IF ~Stoi(line).ok
           THEN /\ out' = out \cup {MsgSelectionPrompt}
                /\ sourceOpt' = sourceOpt
                /\ pc' = "Terminated"
                /\ exitCode' = ExitAbnormal
           ELSE IF SelectionInRange(Stoi(line).value, Len(windows))
           THEN /\ out' = out \cup {MsgSelectionPrompt, MsgUsingWindow}
                /\ sourceOpt' = WindowCaptureItemSource(windows[Stoi(line).value + 1])
                /\ pc' = "SourceReturned"
                /\ exitCode' = exitCode
           ELSE /\ out' = out \cup {MsgSelectionPrompt, MsgInvalidInput}
                /\ sourceOpt' = sourceOpt
                /\ pc' = "GetWindowToCapture"
                /\ exitCode' = exitCode
    /\ UNCHANGED <<args, error, options, monitors, windows>>
    /\ UNCHANGED workerVars

\* wmain lines 75-79.
CheckSource ==
    /\ pc = "SourceReturned"
    /\ IF ~sourceOpt.has
       THEN /\ exitCode' = 1
            /\ pc' = "Done"
       ELSE /\ exitCode' = exitCode
            /\ pc' = "CreateCaptureThread"
    /\ UNCHANGED <<args, error, options, out, numReads, monitors, windows,
                   selectionString, sourceOpt>>
    /\ UNCHANGED workerVars

\* wmain lines 82-96: create the device and the dispatcher thread, post the
\* startup work item; the main thread then blocks in wait() (line 126).
CreateCaptureThread ==
    /\ pc = "CreateCaptureThread"
    /\ controller' = "running"
    /\ queue' = Append(queue, "startup")
    /\ pc' = "WaitStartup"
    /\ UNCHANGED <<args, error, options, exitCode, out, numReads, monitors,
                   windows, selectionString, sourceOpt>>
    /\ UNCHANGED <<wpc, captureThreadEvent, framePool, session, timer, frame,
                   buffer, itemsRun, ticks, frames>>
    /\ UNCHANGED auditVars

WaitReturnsUnsignalled(e) == TRUE

\* captureThreadEvent.wait() returns only once the event is signalled.
WaitReturns(e) == e

\* wmain lines 126-129: wait() returns once the event is signalled and, the
\* event being auto-reset (EventOptions::None), consumes the signal.
WaitStartup ==
    /\ pc = "WaitStartup"
    /\ WaitReturns(captureThreadEvent)
    /\ captureThreadEvent' = FALSE
    /\ out' = out \cup {MsgPressEnter}
    /\ pc' = "GetLine"
    /\ UNCHANGED <<args, error, options, exitCode, numReads, monitors, windows,
                   selectionString, sourceOpt>>
    /\ UNCHANGED <<controller, queue, wpc, framePool, session, timer, frame,
                   buffer, itemsRun, ticks, frames>>
    /\ UNCHANGED auditVars

\* wmain line 131: the user presses ENTER.
GetLine ==
    /\ pc = "GetLine"
    /\ numReads' = numReads + 1
    /\ pc' = "RequestShutdown"
    /\ UNCHANGED <<args, error, options, exitCode, out, monitors, windows,
                   selectionString, sourceOpt>>
    /\ UNCHANGED workerVars

ShutdownCapturesWithFrame == {"timer", "framePool", "session", "frame"}

\* The capture list of the shutdown lambda (line 134): the objects the main
\* thread copies, by value, when it builds the work item.
ShutdownCaptures == {"timer", "framePool", "session"}

\* wmain lines 133-134: reset the event and post the shutdown work item,
\* which captures timer, framePool and session by value (references to the
\* objects the startup work item created).
RequestShutdown ==
    /\ pc = "RequestShutdown"
    /\ captureThreadEvent' = FALSE
    /\ mainReads' = mainReads \cup ShutdownCaptures
    /\ queue' = Append(queue, "shutdown")
    /\ pc' = "WaitShutdown"
    /\ UNCHANGED <<args, error, options, exitCode, out, numReads, monitors,
                   windows, selectionString, sourceOpt>>
    /\ UNCHANGED <<controller, wpc, framePool, session, timer, frame, buffer,
                   itemsRun, ticks, frames, framesSinceTick, closeCalls,
                   closeOnNull>>

\* wmain lines 141-142.
WaitShutdown ==
    /\ pc = "WaitShutdown"
    /\ WaitReturns(captureThreadEvent)
    /\ captureThreadEvent' = FALSE
    /\ out' = out \cup {MsgShuttingDown}
    /\ pc' = "ShutdownQueue"
    /\ UNCHANGED <<args, error, options, exitCode, numReads, monitors, windows,
                   selectionString, sourceOpt>>
    /\ UNCHANGED <<controller, queue, wpc, framePool, session, timer, frame,
                   buffer, itemsRun, ticks, frames>>
    /\ UNCHANGED auditVars

\* wmain lines 143-145: ShutdownQueueAsync().get() completes once the
\* dispatcher thread has drained its queue; then return 0.
ShutdownQueue ==
    /\ pc = "ShutdownQueue"
    /\ queue = << >>
    /\ wpc = "idle"
    /\ controller' = "shutdown"
    /\ exitCode' = 0
    /\ pc' = "Done"
    /\ UNCHANGED <<args, error, options, out, numReads, monitors, windows,
                   selectionString, sourceOpt>>
    /\ UNCHANGED <<queue, wpc, captureThreadEvent, framePool, session, timer,
                   frame, buffer, itemsRun, ticks, frames>>
    /\ UNCHANGED auditVars

\* ------------------------------------------------------ dispatcher thread
WorkerAlive == controller = "running" /\ exitCode = StillRunning

StartupSetupEffectCaptureFirst(interval) ==
    [framePool |-> "open", session |-> "started",
     timer |-> [state |-> "created", interval |-> interval]]

\* State of the pool, the session and the timer when line 121 has run: the
\* session is created but not started, the timer is started.
StartupSetupEffect(interval) ==
    [framePool |-> "open", session |-> "created",
     timer |-> [state |-> "running", interval |-> interval]]

\* Startup work item, lines 98-121: create the item, the one-buffer frame
\* pool and the session, register FrameArrived, create the repeating timer,
\* register Tick and start the timer.
RunStartupSetup ==
    /\ WorkerAlive
    /\ wpc = "idle"
    /\ queue # << >> /\ Head(queue) = "startup"
    /\ queue' = Tail(queue)
    /\ LET eff == StartupSetupEffect(options.IntervalInMs)
       IN  /\ framePool' = eff.framePool
           /\ session' = eff.session
           /\ timer' = eff.timer
    /\ wpc' = "startup"
    /\ UNCHANGED mainVars
    /\ UNCHANGED <<controller, captureThreadEvent, frame, buffer, itemsRun,
                   ticks, frames>>
    /\ UNCHANGED auditVars

\* Startup work item, lines 123-124: start the capture and signal the event.
RunStartupStartCapture ==
    /\ WorkerAlive
    /\ wpc = "startup"
    /\ session' = "started"
    /\ captureThreadEvent' = TRUE
    /\ itemsRun' = itemsRun \cup {"startup"}
    /\ wpc' = "idle"
    /\ UNCHANGED mainVars
    /\ UNCHANGED <<controller, queue, framePool, timer, frame, buffer, ticks,
                   frames>>
    /\ UNCHANGED auditVars

BufferAvailableSecondBuffer(b) == b # "queued"

\* The pool was created with one buffer (line 102): the pipeline has a
\* buffer to render into only while that buffer is free.
BufferAvailable(b) == b = "free"

\* The capture pipeline renders into the pool's buffer when it is free and
\* raises FrameArrived on the dispatcher queue that created the pool.
FrameProduced ==
    /\ WorkerAlive
    /\ session = "started"
    /\ framePool = "open"
    /\ BufferAvailable(buffer)
    /\ frames < MaxFrames
    /\ frames' = frames + 1
    /\ buffer' = "queued"
    /\ queue' = Append(queue, "frameArrived")
    /\ UNCHANGED mainVars
    /\ UNCHANGED <<controller, wpc, captureThreadEvent, framePool, session,
                   timer, frame, itemsRun, ticks>>
    /\ UNCHANGED auditVars

\* FrameArrived handler, lines 105-108: frame = sender.TryGetNextFrame().
\* The assignment drops the reference to the frame held before.
FrameArrived ==
    /\ WorkerAlive
    /\ wpc = "idle"
    /\ queue # << >> /\ Head(queue) = "frameArrived"
    /\ queue' = Tail(queue)
    /\ IF buffer = "queued"
       THEN /\ frame' = "open"
            /\ buffer' = "held"
            /\ framesSinceTick' = framesSinceTick + 1
       ELSE /\ frame' = "null"
            /\ buffer' = (IF frame = "open" THEN "free" ELSE buffer)
            /\ framesSinceTick' = framesSinceTick
    /\ closeCalls' = 0
    /\ UNCHANGED mainVars
    /\ UNCHANGED <<controller, wpc, captureThreadEvent, framePool, session,
                   timer, itemsRun, ticks, frames, closeOnNull, mainReads>>

TickClosesUnchecked(f) == TRUE

TickClosesInverted(f) == f = "null"

\* if (frame != nullptr): the condition under which Tick calls frame.Close().
TickCloses(f) == f # "null"

\* Tick handler, lines 114-120: if (frame != nullptr) frame.Close().
\* Close() marks the frame object closed and, the first time, returns its
\* buffer to the pool; `frame` keeps referring to the object.  Close()
\* through a null reference is an access violation that ends the process.
Tick ==
    /\ WorkerAlive
    /\ wpc = "idle"
    /\ timer.state = "running"
    /\ ticks < MaxTicks
    /\ ticks' = ticks + 1
    /\ framesSinceTick' = 0
    /\ IF ~TickCloses(frame)
       THEN /\ frame' = frame
            /\ buffer' = buffer
            /\ closeCalls' = closeCalls
            /\ closeOnNull' = closeOnNull
            /\ UNCHANGED <<pc, exitCode>>
       ELSE IF frame = "null"
       THEN /\ frame' = frame
            /\ buffer' = buffer
            /\ closeCalls' = closeCalls
            /\ closeOnNull' = TRUE
            /\ pc' = "Terminated"
            /\ exitCode' = ExitAbnormal
       ELSE /\ frame' = "closed"
            /\ buffer' = (IF frame = "open" THEN "free" ELSE buffer)
            /\ closeCalls' = closeCalls + 1
            /\ closeOnNull' = closeOnNull
            /\ UNCHANGED <<pc, exitCode>>
    /\ UNCHANGED <<args, error, options, out, numReads, monitors, windows,
                   selectionString, sourceOpt>>
    /\ UNCHANGED <<controller, queue, wpc, captureThreadEvent, framePool,
                   session, timer, itemsRun, frames, mainReads>>

TimerStopSkipped(t) == t

\* timer.Stop()
TimerStop(t) == [t EXCEPT !.state = "stopped"]

ShutdownCloseEffectSessionLeftOpen(p, s, e) ==
    [framePool |-> "closed", session |-> s, event |-> TRUE]

ShutdownCloseEffectNoSignal(p, s, e) ==
    [framePool |-> "closed", session |-> "closed", event |-> e]

\* framePool.Close(); session.Close(); captureThreadEvent.SetEvent();
ShutdownCloseEffect(p, s, e) ==
    [framePool |-> "closed", session |-> "closed", event |-> TRUE]

\* SelectSeq test: work items that survive the closing of the frame pool.
NotFrameArrived(item) == item # "frameArrived"

\* Shutdown work item, line 136: timer.Stop().
RunShutdownStopTimer ==
    /\ WorkerAlive
    /\ wpc = "idle"
    /\ queue # << >> /\ Head(queue) = "shutdown"
    /\ queue' = Tail(queue)
    /\ timer' = TimerStop(timer)
    /\ wpc' = "shutdown"
    /\ UNCHANGED mainVars
    /\ UNCHANGED <<controller, captureThreadEvent, framePool, session, frame,
                   buffer, itemsRun, ticks, frames>>
    /\ UNCHANGED auditVars

\* Shutdown work item, lines 137-139: close the pool and the session, signal
\* the event.  A closed pool raises no further FrameArrived and gives up a
\* frame it had queued.
RunShutdownClose ==
    /\ WorkerAlive
    /\ wpc = "shutdown"
    /\ LET eff == ShutdownCloseEffect(framePool, session, captureThreadEvent)
       IN  /\ framePool' = eff.framePool
           /\ session' = eff.session
           /\ captureThreadEvent' = eff.event
    /\ queue' = SelectSeq(queue, NotFrameArrived)
    /\ buffer' = (IF buffer = "queued" THEN "free" ELSE buffer)
    /\ itemsRun' = itemsRun \cup {"shutdown"}
    /\ wpc' = "idle"
    /\ UNCHANGED mainVars
    /\ UNCHANGED <<controller, timer, frame, ticks, frames>>
    /\ UNCHANGED auditVars

\* ------------------------------------------------------------ specification
Next ==
    \/ ParseOptions
    \/ CheckOptions
    \/ CreateCaptureSourceFromMonitorIndex
    \/ CreateCaptureSourceFromWindowTitleSearch
    \/ SelectionPrompt
    \/ CheckSource
    \/ CreateCaptureThread
    \/ WaitStartup
    \/ GetLine
    \/ RequestShutdown
    \/ WaitShutdown
    \/ ShutdownQueue
    \/ RunStartupSetup
    \/ RunStartupStartCapture
    \/ FrameProduced
    \/ FrameArrived
    \/ Tick
    \/ RunShutdownStopTimer
    \/ RunShutdownClose

Spec == Init /\ [][Next]_vars

\* Whole runs under fair scheduling start from the shorter argument lists
\* (they already reach every exit and both kinds of subject).
InitRun ==
    /\ pc = "ParseOptions"
    /\ args \in UNION {[1..n -> Tokens] : n \in 0..MaxArgsRun}
    /\ options = NoOptions
    /\ InitRest

\* The dispatcher thread runs the items of its queue in order and never
\* stops while one is pending; a started repeating timer keeps firing; the
\* main thread runs whenever it is not blocked on the console or on the event.
FairSpec ==
    /\ InitRun
    /\ [][Next]_vars
    /\ WF_vars(RunStartupSetup)
    /\ WF_vars(RunStartupStartCapture)
    /\ WF_vars(FrameArrived)
    /\ WF_vars(Tick)
    /\ WF_vars(RunShutdownStopTimer)
    /\ WF_vars(RunShutdownClose)
    /\ WF_vars(RequestShutdown)
    /\ WF_vars(WaitShutdown)
    /\ WF_vars(ShutdownQueue)

\* Function-level specification of subject resolution: the subject handed to
\* CreateItemSourceFromSubject is drawn from a bounded set of indices
\* (including one above INT_MAX) and title queries.
ResolveSubjects ==
    {MonitorCaptureSubject(U32(i)) : i \in 0..MaxIndex}
        \cup {MonitorCaptureSubject(ToUint32(0 - INT_MAX))}
        \cup {WindowCaptureSubject(t) : t \in ValueTokens}

InitResolve ==
    /\ pc = "CreateItemSourceFromSubject"
    /\ args = << >>
    /\ options \in {SomeOptions(subj, DefaultInterval) : subj \in ResolveSubjects}
    /\ InitRest

NextResolve ==
    \/ CreateCaptureSourceFromMonitorIndex
    \/ CreateCaptureSourceFromWindowTitleSearch
    \/ SelectionPrompt
    \/ CheckSource

SpecResolve == InitResolve /\ [][NextResolve]_vars

\* ------------------------------------------------- vocabulary of the claims
HelpRequested(argv) == \E i \in 1..Len(argv) : argv[i] \in {FlagHelp, FlagHelpAlt}

\* s is a non-empty string of decimal digits.
IsDigitString(s) == Len(s) >= 1 /\ \A i \in 1..Len(s) : s[i] \in Digits

RECURSIVE DecimalValue(_)
DecimalValue(s) ==
    IF s = << >> THEN 0
    ELSE 10 * DecimalValue(SubSeq(s, 1, Len(s) - 1)) + DigitVal[s[Len(s)]]

\* s is non-empty and does not start with a number.
IsNonNumeric(s) ==
    /\ Len(s) >= 1
    /\ s[1] \notin Digits
    /\ ~(s[1] \in {"-", "+"} /\ Len(s) >= 2 /\ s[2] \in Digits)

IntervalArg == GetFlagValue(args, FlagInterval, AliasInterval)
MonitorArg == GetFlagValue(args, FlagMonitor, AliasMonitor)
WindowArg == GetFlagValue(args, FlagWindow, AliasWindow)
BothSubjectsSupplied == MonitorArg # EmptyString /\ WindowArg # EmptyString

\* ------------------------------------------------------------------ claims

\* C1: ParseOptions on the interval flag: an interval string representing an
\* integer n > 0 yields intervalMs = n; one representing 0 or non-numeric
\* fails with the invalid-interval message and the error flag; no Options
\* with intervalMs = 0 is returned.
C1_IntervalParsing ==
    (pc = "ParseOptionsReturned" /\ ~HelpRequested(args)) =>
        /\ (IsDigitString(IntervalArg) /\ DecimalValue(IntervalArg) > 0 /\ options.has)
              => options.IntervalInMs = U32(DecimalValue(IntervalArg))
        /\ ((IsDigitString(IntervalArg) /\ DecimalValue(IntervalArg) = 0)
                \/ IsNonNumeric(IntervalArg))
              => (error /\ ~options.has /\ MsgInvalidInterval \in out)
        /\ options.has => options.IntervalInMs # U32(0)

\* C2: ParseOptions subject selection: a window-title value gives
\* ByWindowTitle(value); otherwise a display-index value i gives
\* ByDisplayIndex(i); neither gives ByDisplayIndex(0).
C2_SubjectSelection ==
    (pc = "ParseOptionsReturned" /\ options.has) =>
        IF WindowArg # EmptyString
        THEN options.Subject = WindowCaptureSubject(WindowArg)
        ELSE IF IsDigitString(MonitorArg)
        THEN options.Subject = MonitorCaptureSubject(U32(DecimalValue(MonitorArg)))
        ELSE MonitorArg = EmptyString
                => options.Subject = MonitorCaptureSubject(U32(0))

\* C3: ParseOptions interval default: with no interval flag and not both
\* subject flags, parsing succeeds with intervalMs = 1000, whether no subject
\* flag, only a display index, or only a window title is given.
C3_IntervalDefault ==
    (/\ pc = "ParseOptionsReturned"
     /\ ~HelpRequested(args)
     /\ GetFlagIndex(args, FlagInterval, AliasInterval) = 0
     /\ ~BothSubjectsSupplied
     /\ (MonitorArg = EmptyString \/ IsDigitString(MonitorArg)))
        => (options.has /\ ~error /\ options.IntervalInMs = U32(1000))

\* C4 as stated: every argument list supplying both a display-index and a
\* window-title value makes parsing fail: error set, no Options, exit code 1.
C4_ConflictAlwaysFails ==
    [][(pc = "ParseOptionsReturned" /\ BothSubjectsSupplied)
          => (error /\ ~options.has /\ exitCode' = 1)]_vars

\* C4: every argument list without a help flag that supplies both a
\* display-index and a window-title value, in either order, makes parsing
\* fail: the conflict message (or the invalid-interval message) is printed,
\* error is set, no Options is returned and wmain exits with code 1.
C4_ConflictRule ==
    [][(pc = "ParseOptionsReturned" /\ ~HelpRequested(args) /\ BothSubjectsSupplied)
          => (/\ error
              /\ ~options.has
              /\ out \cap {MsgConflict, MsgInvalidInterval} # {}
              /\ exitCode' = 1
              /\ pc' = "Done")]_vars

\* A conflict reported with the window flag given before the monitor flag.
C4_Witness ==
    /\ pc = "ParseOptionsReturned"
    /\ ~HelpRequested(args)
    /\ BothSubjectsSupplied
    /\ GetFlagIndex(args, FlagWindow, AliasWindow)
           < GetFlagIndex(args, FlagMonitor, AliasMonitor)
    /\ MsgConflict \in out

\* C5: with k displays enumerated and index i requested,
\* CreateCaptureSourceFromMonitorIndex returns the i-th display iff
\* 0 <= i < k, and otherwise returns nothing and reports the index as out of
\* bounds.
C5_DisplayResolution ==
    (pc = "SourceReturned" /\ options.Subject.kind = "Monitor") =>
        LET i == options.Subject.MonitorIndex
            hits == {j \in 1..Len(monitors) : U32(j - 1) = i}
        IN  /\ sourceOpt.has <=> hits # {}
            /\ \A j \in hits : sourceOpt = MonitorCaptureItemSource(monitors[j])
            /\ hits = {} => MsgMonitorOutOfBounds \in out
            /\ hits # {} => MsgMonitorOutOfBounds \notin out

\* The last of several displays is requested and returned.
C5_Witness ==
    /\ pc = "SourceReturned"
    /\ options.Subject.kind = "Monitor"
    /\ Len(monitors) > 1
    /\ options.Subject.MonitorIndex = U32(Len(monitors) - 1)
    /\ sourceOpt.has

\* C6: interactive selection among m > 1 windows: an input that is neither a
\* cancel request nor an integer in [0, m) is answered by the invalid-input
\* message and a new prompt; it neither ends the loop, nor selects a window,
\* nor ends the program.
C6_InvalidSelectionRecovered ==
    (/\ pc \in {"GetWindowToCapture", "SourceReturned", "Terminated"}
     /\ numReads > 0
     /\ Len(windows) > 1
     /\ ~IsQuit(selectionString)
     /\ ~(IsDigitString(selectionString)
            /\ DecimalValue(selectionString) < Len(windows)))
        => (/\ pc = "GetWindowToCapture"
            /\ MsgInvalidInput \in out
            /\ ~sourceOpt.has
            /\ exitCode = StillRunning)

\* C7: with exactly one matching window, that window is returned as the
\* Window surface; no selection prompt is printed and no line is read.
C7_SingleMatchNoPrompt ==
    Len(windows) = 1 =>
        /\ MsgSelectionPrompt \notin out
        /\ MsgFoundWindows \notin out
        /\ pc \notin {"GetWindowToCapture", "Terminated"}
        /\ pc = "SourceReturned"
              => (sourceOpt = WindowCaptureItemSource(windows[1]) /\ numReads = 0)

C7_Witness ==
    /\ pc = "SourceReturned"
    /\ Len(windows) = 1
    /\ sourceOpt = WindowCaptureItemSource(HWND(1))

\* C8: early exits: after any validation failure (its message printed, or the
\* selection cancelled) wmain ends with exit code 1, after a help request
\* with exit code 0; in these runs no dispatcher thread is created, no work
\* item is posted and no capture session is created or started.
ValidationMessages ==
    {MsgInvalidInterval, MsgConflict, MsgInvalidMonitor, MsgMonitorOutOfBounds,
     MsgNoWindows}

NothingStarted ==
    /\ controller = "none"
    /\ queue = << >>
    /\ itemsRun = {}
    /\ session = "null"
    /\ framePool = "null"
    /\ timer = NullTimer

C8_EarlyExit ==
    /\ (out \cap ValidationMessages # {} \/ IsQuit(selectionString))
          => /\ NothingStarted
             /\ pc \in {"ParseOptionsReturned", "SourceReturned", "Done"}
             /\ pc = "Done" => exitCode = 1
             /\ pc # "Done" => exitCode = StillRunning
    /\ MsgUsage \in out
          => /\ NothingStarted
             /\ pc \in {"ParseOptionsReturned", "Done"}
             /\ pc = "Done" => exitCode = 0
             /\ pc # "Done" => exitCode = StillRunning

\* The selection was cancelled and the program has ended.
C8_Witness ==
    /\ pc = "Done"
    /\ IsQuit(selectionString)
    /\ exitCode = 1

\* C9: once the shutdown work item has run, the timer is stopped and the
\* frame pool and the session are closed, whether or not a frame was held.
C9_ShutdownPostCondition ==
    "shutdown" \in itemsRun =>
        /\ timer.state = "stopped"
        /\ framePool = "closed"
        /\ session = "closed"

\* The shutdown work item has run while an unclosed frame was held.
C9_Witness ==
    /\ "shutdown" \in itemsRun
    /\ frame = "open"
    /\ buffer = "held"

\* C10: once the user has pressed ENTER in a run that started the capture,
\* the shutdown work item runs, both waits return, the dispatcher queue is
\* shut down and the program exits with code 0.
C10_Termination ==
    (pc = "RequestShutdown") ~> (pc = "Done" /\ exitCode = 0 /\ controller = "shutdown")

C10_Witness ==
    /\ pc = "Done"
    /\ exitCode = 0
    /\ controller = "shutdown"
    /\ itemsRun = {"startup", "shutdown"}

\* C11: a tick that finds latestFrame non-null closes the frame and clears
\* the reference, so right after every Tick callback latestFrame is null.
C11_TickClearsFrame ==
    [][Tick => frame' = "null"]_vars

\* C12: whenever the FrameArrived handler stores a frame, the frame stored
\* before (if any) has already been closed, its buffer returned to the pool;
\* the one buffer is then held by the new frame only.
C12_OverwriteAfterRelease ==
    [][(FrameArrived /\ frame' = "open")
          => (frame \in {"null", "closed"} /\ buffer = "queued" /\ buffer' = "held")]_vars

\* A second frame has been stored over the first one.
C12_Witness ==
    /\ frames >= 2
    /\ frame = "open"
    /\ buffer = "held"
    /\ framePool = "open"

\* C13: the shutdown work item stops the timer before it closes the pool and
\* the session, and no Tick callback runs once the pool or the session is
\* closed.
C13_TeardownOrder ==
    /\ [](wpc = "shutdown"
            => (timer.state = "stopped" /\ framePool = "open" /\ session = "started"))
    /\ []((framePool = "closed" \/ session = "closed") => timer.state = "stopped")
    /\ [][Tick => (framePool = "open" /\ session = "started")]_vars

\* The timer is stopped, after it has ticked, and nothing is closed yet.
C13_Witness ==
    /\ wpc = "shutdown"
    /\ ticks > 0
    /\ timer.state = "stopped"
    /\ framePool = "open"

\* C14: between two consecutive ticks at most one frame is handed to the
\* FrameArrived handler.
C14_OneFramePerTick ==
    framesSinceTick <= 1

\* A frame was delivered after a tick that released the frame before it.
C14_Witness ==
    /\ framesSinceTick = 1
    /\ ticks >= 1
    /\ frames >= 2
    /\ frame = "open"

\* C15: the first wait returns only after the startup work item has started
\* the timer and the capture; the second only after the shutdown work item
\* has stopped the timer and closed pool and session; the dispatcher queue is
\* shut down only after that, and while the main thread waits for the
\* shutdown a signalled event always comes from the shutdown work item.
C15_CompletionHandshake ==
    /\ pc = "GetLine"
          => (/\ itemsRun = {"startup"}
              /\ timer.state = "running"
              /\ session = "started"
              /\ framePool = "open"
              /\ wpc = "idle")
    /\ pc \in {"RequestShutdown", "WaitShutdown"} => "startup" \in itemsRun
    /\ (pc = "WaitShutdown" /\ captureThreadEvent) => "shutdown" \in itemsRun
    /\ (pc = "ShutdownQueue" \/ controller = "shutdown")
          => (/\ itemsRun = {"startup", "shutdown"}
              /\ timer.state = "stopped"
              /\ framePool = "closed"
              /\ session = "closed"
              /\ wpc = "idle")

\* The second wait has returned: the shutdown work item is complete and the
\* queue not yet shut down.
C15_Witness ==
    /\ pc = "ShutdownQueue"
    /\ controller = "running"
    /\ "shutdown" \in itemsRun
    /\ MsgShuttingDown \in out

C17_StartupOrder ==
    /\ wpc = "startup" => (timer.state = "running" /\ session = "created")
    /\ (session \in {"started", "closed"} \/ frames > 0 \/ frame # "null"
            \/ buffer # "free")
          => timer.state \in {"running", "stopped"}
    /\ frame = "open" /\ framePool = "open" /\ wpc = "idle" => timer.state = "running"

\* The timer runs and the capture has not been started yet.
C17_Witness ==
    /\ wpc = "startup"
    /\ timer.state = "running"
    /\ session = "created"
    /\ framePool = "open"

\* The capture is running: the user has not yet asked to exit.
CaptureRunning == pc \in {"WaitStartup", "GetLine"}

\* C18: while the capture is running and the timer still ticks, a frame
\* stored in latestFrame is eventually closed by a tick, which frees the one
\* buffer for a further frame.
C18_FrameEventuallyClosed ==
    (frame = "open" /\ CaptureRunning /\ ticks < MaxTicks)
        ~> ((frame = "closed" /\ buffer = "free") \/ ~CaptureRunning)

\* A tick has closed the stored frame while the capture runs.
C18_Witness ==
    /\ pc = "GetLine"
    /\ frame = "closed"
    /\ closeCalls = 1
    /\ buffer = "free"
    /\ timer.state = "running"

\* C19: in no interleaving of arrivals, ticks and shutdown does the Tick
\* handler call Close() through a null latestFrame.
C19_NullSafeTick ==
    /\ ~closeOnNull
    /\ frame = "null" => closeCalls = 0
    /\ pc = "Terminated" => controller = "none"

\* Ticks ran before any frame arrived and the capture was then shut down.
C19_Witness ==
    /\ ticks >= 1
    /\ frames = 0
    /\ frame = "null"
    /\ "shutdown" \in itemsRun
    /\ exitCode = StillRunning

\* C20: no frame is closed twice: the Tick handler never calls Close() on a
\* frame an earlier tick already closed.
C20_ClosedAtMostOnce ==
    closeCalls <= 1

====
